---- MODULE Spec2Model ----
(***************************************************************************)
(* Per-channel session orchestrator of claude-code-discord: the channel    *)
(* registry and message queue of index.ts (createClaudeCodeBot), the       *)
(* onClaude / onClaudeCancel handlers of claude/command.ts, the SDK        *)
(* wrapper sendToClaudeCode of claude/client.ts with its liveness timers   *)
(* and exit-code-1 retry, and the slash commands of                        *)
(* core/command-wrappers.ts.                                               *)
(*                                                                         *)
(* The program is single-threaded and event driven.  One action of the     *)
(* model is one run-to-completion step: the code between two suspension    *)
(* points (await of real I/O, a timer, the next stream event).             *)
(***************************************************************************)
EXTENDS Integers, Sequences, FiniteSets, TLC

\* ---------------------------------------------------------------- bounds
\* Messages 1..MaxMsgs arrive, in this order, on channels chosen freely.
MaxMsgs == 2
\* The same, in the specification of the queue (SpecQueue).
MaxQueueMsgs == 3
\* Slash commands (/cancel, /new, /status, /model) executed in a run.
MaxCmds == 1
\* Calls of the Discord API (deferReply, editReply, send) that throw in a run.
MaxFails == 1
\* messageCount and streamMessageCount saturate here (the code only tests
\* them against 0 and 1).
MaxCount == 1

Channels == {"a", "b"}
Msgs == 1..(IF MaxMsgs > MaxQueueMsgs THEN MaxMsgs ELSE MaxQueueMsgs)
Null == 0
None == "none"
BaseDir == "workDir"

VARIABLES
  channelSessions,   \* Map<string, ChannelSession> of createClaudeCodeBot
  activeChannelId,   \* the one global "active channel" of createClaudeCodeBot
  activeChannel,     \* the one channel of createDiscordBot that bot.getChannel() returns
  aborted,           \* AbortControllers whose signal is aborted (a controller is named by the message whose onClaude created it)
  pendingWrites,     \* snapshots handed to Deno.writeTextFile and not yet written
  persisted,         \* content of .claude-sessions.json
  tasks,             \* per message: the position and locals of its onMessage / processMessage / onClaude / sendToClaudeCode
  cmds,              \* number of slash commands executed
  forfeit,           \* history: the channels whose handle a command aborted, no task dispatched since
  renewed,           \* history, kept where conf.hist is set: the channels where /new was executed, no task dispatched since
  fails,             \* number of Discord API calls that threw
  shutdown,          \* handleSignal has run
  toolCall,          \* a call of the canUseTool guard of a query: its arguments and what it returned
  runner,            \* the auto-update runner (run.sh): its variables, its position, the processes it started and the repository
  conf               \* the environment of a specification: the number of messages, whether a write of the session file ends before the next step (sync), whether renewed is kept (hist), and the session file the process started with

vars == <<channelSessions, activeChannelId, activeChannel, aborted, pendingWrites, persisted, tasks,
          cmds, forfeit, renewed, fails, shutdown, toolCall, runner, conf>>

\* ------------------------------------------------------------ the store
\* The mutable program state a run-to-completion step works on; the steps
\* of the code are composed as functions on it.
Store == [cs |-> channelSessions, act |-> activeChannelId, ab |-> aborted,
          pw |-> pendingWrites, fs |-> persisted, tk |-> tasks, sync |-> conf.sync,
          ff |-> forfeit, nw |-> renewed, ch |-> activeChannel]

dispatchedNow(S, m) ==
  tasks[m].pc \in {"mkdir", "queued"} /\ S.tk[m].pc \notin {"mkdir", "queued"}

undispatched(S, cc) ==
  {c \in cc : \A m \in DOMAIN tasks : ~(tasks[m].chan = c /\ dispatchedNow(S, m))}

Commit(S) ==
  /\ forfeit' = undispatched(S, S.ff)
  /\ renewed' = undispatched(S, S.nw)
  /\ channelSessions' = S.cs
  /\ activeChannelId' = S.act
  /\ activeChannel' = S.ch
  /\ aborted' = S.ab
  /\ pendingWrites' = S.pw
  /\ persisted' = S.fs
  /\ tasks' = S.tk
  /\ UNCHANGED <<toolCall, runner>>

\* The channel names getChannelSession is called with: none (the accessors
\* pass the id only), the name of a channel, which the model takes to be
\* its id, or the name of a channel that was renamed.
Labels == {None, "renamed"} \cup Channels
channelName(c) == c

\* folderName: channelName || channelId (the folder stands for channelWorkDir).
folderName(c, name) == IF name # None THEN name ELSE c

NoSession == [exists |-> FALSE, controller |-> Null, sessionId |-> Null, messageQueue |-> <<>>,
              channelWorkDir |-> None]
NewSession(folder) ==
  [exists |-> TRUE, controller |-> Null, sessionId |-> Null, messageQueue |-> <<>>,
   channelWorkDir |-> folder]

NoTimers == <<"none", "none">>
\* pc: new, mkdir (onMessage awaits), queued, defer (onClaude awaits
\* deferReply / editReply), run (onClaude awaits the race), notify (onClaude
\* awaits its terminal notification), done, crashed (onClaude rejected).
\* query: the model and the resume option of the attempt's call of the SDK.
\* A local is kept only while the code can still read it.
NoQuery == [model |-> "none", resume |-> Null]

NewTask == [pc |-> "new", chan |-> None, attempt |-> 0, messageCount |-> 0,
            streamMessageCount |-> 0, timeoutId |-> FALSE, innerTimer |-> NoTimers,
            cwd |-> None, sessionId |-> Null, query |-> NoQuery,
            result |-> "none", note |-> "none"]

Inc(n) == IF n < MaxCount THEN n + 1 ELSE n

\* The locals of sendToClaudeCode and onClaude are dead once onClaude awaits
\* its notification or has returned; timers that were not cleared stay armed.
settled(t, pc, res, note) ==
  [t EXCEPT !.pc = pc, !.attempt = 0, !.messageCount = 0, !.streamMessageCount = 0,
            !.timeoutId = FALSE, !.result = res, !.note = note,
            !.sessionId = Null, !.query = NoQuery,
            !.innerTimer = [k \in 1..2 |-> IF @[k] = "fired" THEN "none" ELSE @[k]]]

\* getChannelSession that sets a new entry whether or not the map has one.
getChannelSessionReset(S, c, name) == [S EXCEPT !.cs[c] = NewSession(folderName(c, name))]

\* getChannelSession: create the entry on first use, keep it otherwise.
getChannelSession(S, c, name) ==
  IF S.cs[c].exists THEN S ELSE [S EXCEPT !.cs[c] = NewSession(folderName(c, name))]

\* The accessors handed to createAllHandlers all go through activeChannelId.
touch(S) == IF S.act # None THEN getChannelSession(S, S.act, None) ELSE S
getController(S) == IF S.act # None THEN S.cs[S.act].controller ELSE Null
getSessionId(S) == IF S.act # None THEN S.cs[S.act].sessionId ELSE Null

setController(S, v) ==
  IF S.act # None THEN [touch(S) EXCEPT !.cs[S.act].controller = v] ELSE S

\* saveSessionState: the snapshot is taken synchronously, the write is awaited
\* by nobody (fire and forget); it ends at once where conf.sync is set.
snapshot(S) == [c \in Channels |-> S.cs[c].sessionId]
saveSessionState(S) ==
  IF S.sync THEN [S EXCEPT !.fs = snapshot(S)] ELSE [S EXCEPT !.pw = @ \cup {snapshot(S)}]

setSessionId(S, sid) ==
  IF S.act # None
    THEN saveSessionState([touch(S) EXCEPT !.cs[S.act].sessionId = sid])
    ELSE S

\* getClaudeWorkDir: the folder of the active channel, the base directory
\* when there is none.
getClaudeWorkDir(S) ==
  IF S.act # None /\ S.cs[S.act].exists THEN S.cs[S.act].channelWorkDir ELSE BaseDir

\* controller.abort()
abort(S, k) == [S EXCEPT !.ab = @ \cup {k}]

\* deps.claudeController as the handlers of claude/command.ts read it: the
\* controller of the active channel (the wiring is in core/handler-registry.ts).
claudeController(S) == getController(S)

\* ------------------------------------------------- processMessage / onClaude
\* onClaude up to its first await (ctx.deferReply): the working directory is
\* resolved, a controller still held by the active channel is aborted, a new
\* controller is created and stored through setClaudeController.
onClaudeBegin(S, m) ==
  LET c0 == claudeController(S)
      S0 == [S EXCEPT !.tk[m].cwd = getClaudeWorkDir(S), !.tk[m].pc = "defer"]
      S1 == IF c0 # Null THEN abort(S0, c0) ELSE S0
  IN setController(S1, m)

\* processMessage up to the await of onClaude: the session id passed is the
\* one of the session object captured by onMessage.
processMessage(S, m) ==
  onClaudeBegin([S EXCEPT !.tk[m].sessionId = S.cs[S.tk[m].chan].sessionId], m)

\* processMessage after onClaude returned: pop the head of the queue and
\* process it (activeChannelId is set back to this channel first).
drainQueue(S, m) ==
  LET c == S.tk[m].chan
      q == S.cs[c].messageQueue
      S0 == [S EXCEPT !.tk[m] = settled(@, "done", "none", "none")]
  IN IF q = <<>> THEN S0
     ELSE processMessage([S0 EXCEPT !.cs[c].messageQueue = Tail(q), !.act = c], Head(q))

\* onClaude after Promise.race resolved: the try block, up to its awaited
\* notification if it sends one.
tryPath(S, m, sid, res) ==
  LET S1 == setController(setSessionId(S, sid), Null)
  IN IF sid # Null
       THEN [S1 EXCEPT !.tk[m] = settled(@, "notify", res, "completion")]
       ELSE IF S.tk[m].streamMessageCount = 0
         THEN [S1 EXCEPT !.tk[m] = settled(@, "notify", res, "noresponse")]
         ELSE drainQueue(S1, m)

\* onClaude after Promise.race rejected (or a send of the try block threw):
\* the catch block up to its await of ctx.editReply.
catchPath(S, m, res) ==
  [setController(S, Null) EXCEPT !.tk[m] = settled(@, "notify", res, "error")]

\* ------------------------------------------------------ sendToClaudeCode
\* executeWithErrorHandling up to the for-await: the attempt's own locals and
\* its startup timer.
\* cleanSessionId: strip the white space, backticks and line breaks around an
\* id.  A session id is a positive number here and -n encodes the id n with
\* such characters around it.
cleanSessionId(sid) == IF sid < 0 THEN 0 - sid ELSE sid

DefaultModel == "default"
FallbackModel == "claude-sonnet-4-20250514"

\* modelToUse: overrideModel || modelOptions?.model.
modelToUse(k) == IF k = 2 THEN FallbackModel ELSE DefaultModel

\* shouldResume with the resume option rebuilt as attempt 1: skipResume ignored.
resumeTokenAlways(t, k) == cleanSessionId(t.sessionId)

\* shouldResume: the resume token attempt k of a task passes to the SDK
\* (continueMode is false on this path, skipResume is set for the retry).
resumeToken(t, k) ==
  IF cleanSessionId(t.sessionId) # Null /\ k = 1 THEN cleanSessionId(t.sessionId) ELSE Null

executeWithErrorHandling(S, m, k) ==
  [S EXCEPT !.tk[m].attempt = k,
            !.tk[m].messageCount = 0,
            !.tk[m].query = [model |-> modelToUse(k), resume |-> resumeToken(S.tk[m], k)],
            !.tk[m].innerTimer[k] = IF m \notin S.ab THEN "startup" ELSE "none"]

\* The iterator finished (or the loop was left by break): the timer is
\* cleared and sendToClaudeCode returns to onClaude.  hasSid: one of the
\* messages received by this attempt carried a session_id.
attemptReturned(S, m, hasSid) ==
  LET k == S.tk[m].attempt
      S0 == [S EXCEPT !.tk[m].innerTimer[k] = "none"]
  IN IF m \in S.ab
       THEN tryPath(S0, m, Null, "cancelled")
       ELSE IF S.tk[m].messageCount = 0
         \* messages[messages.length - 1] is undefined: the 'in' test throws
         THEN catchPath(S0, m, IF k = 1 THEN "error" ELSE "retry_failed")
         ELSE tryPath(S0, m, IF hasSid THEN m ELSE Null, "success")

\* One iteration of the for-await loop.
onEvent(S, m) ==
  LET k == S.tk[m].attempt
      S0 == [S EXCEPT !.tk[m].messageCount = Inc(@),
                      !.tk[m].innerTimer[k] = IF m \notin S.ab THEN "activity" ELSE "none"]
  IN IF m \in S.ab
       THEN attemptReturned(S0, m, FALSE)
       ELSE [S0 EXCEPT !.tk[m].streamMessageCount = Inc(@),
                       !.tk[m].timeoutId = IF S.tk[m].streamMessageCount = 0 THEN FALSE ELSE @]

\* What the iterator of the SDK throws: an AbortError, an Error whose message
\* is "Claude Code process exited with code N" (code N), or another Error
\* (code 0: the message names no exit code).
ExitCodes == {1, 2, 127, 137, 143}
ErrKinds == [name : {"Error"}, code : ExitCodes \cup {0}]
              \cup {[name |-> "AbortError", code |-> 0]}

RECURSIVE Digits(_)
Digits(n) == IF n < 10 THEN <<n>> ELSE Append(Digits(n \div 10), n % 10)

\* message.includes("exited with code " + p) for a message built from code n.
includesCode(e, p) ==
  /\ e.code > 0
  /\ Len(Digits(e.code)) >= Len(Digits(p))
  /\ SubSeq(Digits(e.code), 1, Len(Digits(p))) = Digits(p)

\* The test of the catch of executeWithErrorHandling.
isAbort(e) == e.name = "AbortError" \/ includesCode(e, 143)

\* The test of the retry: 'exit code 1' or 'exited with code 1' in the message.
isExitCode1(e) == includesCode(e, 1)

\* onThrow with the catch of the retry rethrowing the error of the first
\* attempt in place of retryError.
onThrowFirstError(S, m, e) ==
  IF isAbort(e) \/ m \in S.ab
    THEN tryPath(S, m, Null, "cancelled")
    ELSE IF S.tk[m].attempt = 1 /\ isExitCode1(e)
      THEN executeWithErrorHandling(S, m, 2)
      ELSE catchPath(S, m, "error")

\* onThrow with the tests of controller.signal.aborted left out.
onThrowNoSignalTest(S, m, e) ==
  IF isAbort(e)
    THEN tryPath(S, m, Null, "cancelled")
    ELSE IF S.tk[m].attempt = 1
      THEN IF isExitCode1(e) THEN executeWithErrorHandling(S, m, 2)
                             ELSE catchPath(S, m, "error")
      ELSE catchPath(S, m, "retry_failed")

\* The iterator threw e: the catch of executeWithErrorHandling (which does
\* not clear the attempt's timer) and the retry decision of sendToClaudeCode.
onThrow(S, m, e) ==
  LET k == S.tk[m].attempt
  IN IF isAbort(e) \/ m \in S.ab
       THEN tryPath(S, m, Null, "cancelled")
       ELSE IF k = 1
         THEN IF isExitCode1(e) THEN executeWithErrorHandling(S, m, 2)
                             ELSE catchPath(S, m, "error")
         ELSE catchPath(S, m, "retry_failed")

\* onStartupTimeout with the call of controller.abort() left out.
onStartupTimeoutNoAbort(S, m) == catchPath(S, m, "startup_timeout")

\* The 30 s timer of onClaude fired: abort, and the race is lost.
onStartupTimeout(S, m) == catchPath(abort(S, m), m, "startup_timeout")

\* onClaudeCancel, and the boolean it returns.
onClaudeCancel(S) ==
  LET c0 == claudeController(S)
  IN IF c0 = Null THEN touch(S)
     ELSE setSessionId(setController(abort(S, c0), Null), Null)

cancelled(S) == claudeController(S) # Null

\* ---------------------------------------------------------------- actions
\* loadSessionState on the empty map: an entry for each channel the session
\* file holds an id for; no entry where the file is missing or JSON.parse
\* rejects it (Damaged: each entry is the mark Garbage).
Garbage == 0 - 1
Damaged == [c \in Channels |-> Garbage]

\* loadSessionState without its try and catch.
loadSessionStateNoCatch(f) ==
  [c \in Channels |->
     IF f[c] # Null
       THEN [NewSession(folderName(c, channelName(c))) EXCEPT !.sessionId = f[c]]
       ELSE NoSession]

loadSessionState(f) ==
  IF f = Damaged
    THEN [c \in Channels |-> NoSession]
    ELSE [c \in Channels |->
            IF f[c] # Null
              THEN [NewSession(folderName(c, channelName(c))) EXCEPT !.sessionId = f[c]]
              ELSE NoSession]

\* ----------------------------------------------------- workspace write guard
\* Paths are strings, a string being the sequence of its characters.
MaxPathLen == 4
Sep == "/"
Chars == {Sep, ".", "w", "x"}
Strings == UNION {[1..n -> Chars] : n \in 0..MaxPathLen}

startsWith(s, prefix) == Len(s) >= Len(prefix) /\ SubSeq(s, 1, Len(prefix)) = prefix

\* The segments between the separators of a string.
RECURSIVE splitAt(_, _, _)
splitAt(s, cur, acc) ==
  IF s = <<>> THEN Append(acc, cur)
  ELSE IF Head(s) = Sep THEN splitAt(Tail(s), <<>>, Append(acc, cur))
  ELSE splitAt(Tail(s), Append(cur, Head(s)), acc)
split(s) == splitAt(s, <<>>, <<>>)

\* normalizeString of node:path: empty segments and "." are dropped, ".."
\* removes the segment before it (and is dropped at the root, kept where
\* allowAboveRoot is set).
RECURSIVE normalizeSegments(_, _, _)
normalizeSegments(segs, out, allowAboveRoot) ==
  IF segs = <<>> THEN out
  ELSE LET seg == Head(segs)
           up == <<".", ".">>
           next == IF seg = <<>> \/ seg = <<".">> THEN out
                   ELSE IF seg = up
                     THEN IF out # <<>> /\ out[Len(out)] # up THEN SubSeq(out, 1, Len(out) - 1)
                          ELSE IF allowAboveRoot THEN Append(out, up) ELSE out
                   ELSE Append(out, seg)
       IN normalizeSegments(Tail(segs), next, allowAboveRoot)

RECURSIVE joinSegments(_)
joinSegments(segs) ==
  IF segs = <<>> THEN <<>>
  ELSE IF Len(segs) = 1 THEN Head(segs)
  ELSE Head(segs) \o <<Sep>> \o joinSegments(Tail(segs))
normalizeString(s, allowAboveRoot) ==
  joinSegments(normalizeSegments(split(s), <<>>, allowAboveRoot))

isAbsolute(s) == s # <<>> /\ Head(s) = Sep

\* path.normalize (posix).
normalize(s) ==
  IF s = <<>> THEN <<".">>
  ELSE LET trailing == s[Len(s)] = Sep
           n == normalizeString(s, ~isAbsolute(s))
       IN IF n = <<>>
            THEN IF isAbsolute(s) THEN <<Sep>> ELSE IF trailing THEN <<".", Sep>> ELSE <<".">>
            ELSE (IF isAbsolute(s) THEN <<Sep>> ELSE <<>>) \o n \o (IF trailing THEN <<Sep>> ELSE <<>>)

\* path.resolve (posix): the arguments are taken from the right until an
\* absolute one is met, process.cwd() being the last resort.
processCwd == <<Sep, "w">>
RECURSIVE resolveFrom(_, _, _)
resolveFrom(paths, i, acc) ==
  IF i = 0 THEN processCwd \o <<Sep>> \o acc
  ELSE IF paths[i] = <<>> THEN resolveFrom(paths, i - 1, acc)
  ELSE IF isAbsolute(paths[i]) THEN paths[i] \o <<Sep>> \o acc
  ELSE resolveFrom(paths, i - 1, paths[i] \o <<Sep>> \o acc)
resolve(paths) == <<Sep>> \o normalizeString(resolveFrom(paths, Len(paths), <<>>), FALSE)

\* The tools that write and the key of their path in the input.  The input
\* of a call is an object with one key.
ToolNames == {"Write", "Edit", "NotebookEdit", "Read"}
PathKeys == {"file_path", "notebook_path"}
writeToolPaths(toolName) ==
  IF toolName \in {"Write", "Edit"} THEN "file_path"
  ELSE IF toolName = "NotebookEdit" THEN "notebook_path"
  ELSE None
ToolInputs == [key : PathKeys, value : Strings]

\* createWorkspaceWriteGuard(workspaceRootDir, cwd)(toolName, input); input[pathKey]
\* is undefined where the input has another key, and an undefined or empty
\* path is not tested.  (A denial carries a message and no input; the record
\* keeps the field for the shape.)
createWorkspaceWriteGuard(workspaceRootDir, cwd, toolName, input) ==
  LET normalizedRoot == normalize(resolve(<<workspaceRootDir>>))
      pathKey == writeToolPaths(toolName)
      resolvedPath == normalize(resolve(<<cwd, input.value>>))
  IN IF /\ pathKey # None
        /\ input.key = pathKey
        /\ input.value # <<>>
        /\ resolvedPath # normalizedRoot
        /\ ~startsWith(resolvedPath, normalizedRoot \o <<Sep>>)
       THEN [behavior |-> "deny", updatedInput |-> input]
       ELSE [behavior |-> "allow", updatedInput |-> input]

\* The workspace roots and, for each, the working directories of a query: the
\* root itself and the folder of a channel below it.
WorkspaceRoots == {<<Sep, "w">>, <<Sep>>}
WorkDirs(root) == {root, IF root = <<Sep>> THEN <<Sep, "x">> ELSE root \o <<Sep, "x">>}
NoResult == [behavior |-> "none", updatedInput |-> [key |-> "file_path", value |-> <<>>]]
NoCall == [root |-> <<Sep>>, cwd |-> <<Sep>>, toolName |-> "none",
           input |-> [key |-> "file_path", value |-> <<>>], result |-> NoResult]

\* ------------------------------------------------------ auto-update runner
\* The runner is a record R: BOT_PID (0 is the empty string), RUNNING_COMMIT,
\* pc (sleep, fetch: check_and_update awaits git fetch, pull: it awaits git
\* pull, exited), procs (what became of each process started), local and
\* server (the history of the local branch and of the branch on the remote,
\* a commit being named by a number and HEAD being the last one) and log
\* (the last two lines logged).
MaxPids == 4
MaxCommits == 3
Pids == 1..MaxPids
HEAD(history) == history[Len(history)]
isAncestor(h, k) == Len(h) <= Len(k) /\ SubSeq(k, 1, Len(h)) = h
started(R) == {p \in Pids : R.procs[p] # "none"}
commits(R) == {R.local[i] : i \in 1..Len(R.local)} \cup {R.server[i] : i \in 1..Len(R.server)}
log(R, line) == [R EXCEPT !.log = <<@[2], line>>]

start_bot(R) ==
  LET pid == Cardinality(started(R)) + 1
  IN log([R EXCEPT !.RUNNING_COMMIT = HEAD(R.local), !.procs[pid] = "alive", !.BOT_PID = pid],
         "Bot started")

\* kill -0, kill and wait: the process has exited when stop_bot returns.
stop_bot(R) ==
  IF R.BOT_PID # 0 /\ R.procs[R.BOT_PID] = "alive"
    THEN [log(R, "Bot stopped") EXCEPT !.procs[R.BOT_PID] = "killed", !.BOT_PID = 0]
    ELSE [R EXCEPT !.BOT_PID = 0]

check_bot_alive(R) ==
  IF R.BOT_PID # 0 /\ R.procs[R.BOT_PID] # "alive"
    THEN start_bot([log(R, "Bot process died unexpectedly") EXCEPT !.BOT_PID = 0])
    ELSE R

\* check_and_update after git fetch returned: REMOTE_HEAD is the head the
\* fetch has just brought.
check_and_update(R, fetched) ==
  LET LOCAL_HEAD == HEAD(R.local)
      REMOTE_HEAD == HEAD(R.server)
  IN IF ~fetched THEN [log(R, "git fetch failed") EXCEPT !.pc = "sleep"]
     ELSE IF LOCAL_HEAD # REMOTE_HEAD
       THEN [log(stop_bot(log(R, "Remote update detected")), "Pulling") EXCEPT !.pc = "pull"]
     ELSE IF LOCAL_HEAD # R.RUNNING_COMMIT
       THEN [start_bot(stop_bot(log(R, "Local update detected"))) EXCEPT !.pc = "sleep"]
     ELSE [R EXCEPT !.pc = "sleep"]

\* git pull --ff-only: fast-forwards the local branch, has nothing to do
\* when the remote branch is behind it, fails when the two have diverged.
pullSucceeds(R) == isAncestor(R.local, R.server) \/ isAncestor(R.server, R.local)
pulled(R) == IF isAncestor(R.local, R.server) THEN R.server ELSE R.local

\* The path of a failed pull with the call of start_bot left out.
pullFailedNoStart(R) == log(R, "git pull failed")

pullFailed(R) == start_bot(log(R, "git pull failed"))

\* check_and_update after git pull returned (connected: the remote answered).
afterPull(R, connected) ==
  [(IF connected /\ pullSucceeds(R)
      THEN start_bot(log([R EXCEPT !.local = pulled(R)], "Update complete"))
      ELSE pullFailed(R))
     EXCEPT !.pc = "sleep"]

cleanup(R) == [stop_bot(log(R, "Shutting down")) EXCEPT !.pc = "exited"]

\* The script up to its first sleep.
RunnerStarted ==
  start_bot([BOT_PID |-> 0, RUNNING_COMMIT |-> 0, pc |-> "sleep",
             procs |-> [p \in Pids |-> "none"], local |-> <<1>>, server |-> <<1>>,
             log |-> <<"", "Auto-update runner starting">>])

\* No session file, and the session files a former process can have left:
\* the ids of the former process are other numbers than those of this one.
NoFile == [c \in Channels |-> Null]
SavedId == [c \in Channels |-> IF c = "a" THEN 11 ELSE 12]
SavedFiles == {f \in [Channels -> {Null, 11, 12}] : \A c \in Channels : f[c] \in {Null, SavedId[c]}}

\* The first text channel of the category, where ClientReady posts the
\* startup message.
firstChannel == "a"

InitState(cf) ==
  /\ channelSessions = loadSessionState(cf.file)
  /\ activeChannelId = None
  /\ activeChannel = firstChannel
  /\ aborted = {}
  /\ pendingWrites = {}
  /\ persisted = cf.file
  /\ tasks = [m \in Msgs |-> NewTask]
  /\ cmds = 0
  /\ forfeit = {}
  /\ renewed = {}
  /\ fails = 0
  /\ shutdown = FALSE
  /\ toolCall = NoCall
  /\ runner = RunnerStarted
  /\ conf = cf

Init == InitState([msgs |-> MaxMsgs, sync |-> TRUE, hist |-> FALSE, file |-> NoFile])
InitQueue == InitState([msgs |-> MaxQueueMsgs, sync |-> TRUE, hist |-> FALSE, file |-> NoFile])
InitDisk == InitState([msgs |-> MaxMsgs, sync |-> FALSE, hist |-> TRUE, file |-> NoFile])
InitRestart ==
  \E f \in SavedFiles \cup {Damaged} : InitState([msgs |-> MaxMsgs, sync |-> FALSE, hist |-> TRUE, file |-> f])

Others == UNCHANGED <<cmds, fails, shutdown, conf>>

busy(S, c) == S.cs[c].controller # Null /\ S.cs[c].controller \notin S.ab

\* The two channels are interchangeable: the first message or command of a run
\* is taken to be on channel "a".  After handleSignal the process exits within
\* a second: no further message or command is followed.
Input(c) == ~shutdown /\ (activeChannelId = None => c = "a")

\* The MessageCreate handler up to its call of onMessage, and handleCommand
\* up to handler.execute: output is routed to the channel of the input.
MessageCreate(S, c) == [S EXCEPT !.ch = c]
handleCommand(S, c) == [S EXCEPT !.ch = c]

\* onMessage up to its first await (Deno.mkdir; the image downloads are
\* further awaits of the same kind).
onMessageBegin(S, m, c) ==
  [getChannelSession([S EXCEPT !.act = c], c, channelName(c)) EXCEPT
     !.tk[m].chan = c, !.tk[m].pc = "mkdir"]

\* onMessage after its awaits: queue the message while the channel is busy,
\* process it otherwise.
onMessageSubmit(S, m) ==
  LET c == S.tk[m].chan
  IN IF busy(S, c)
       THEN [S EXCEPT !.cs[c].messageQueue = Append(@, m), !.tk[m].pc = "queued"]
       ELSE processMessage(S, m)

\* queuePosition with the length read before the push.
queuePositionBeforePush(S, m) == Len(S.cs[S.tk[m].chan].messageQueue) - 1

\* The position reported to the user by the "Queued" reply.
queuePosition(S, m) == Len(S.cs[S.tk[m].chan].messageQueue)

Arrive(m, c) ==
  /\ Input(c)
  /\ m <= conf.msgs
  /\ tasks[m].pc = "new"
  /\ IF m = 1 THEN TRUE ELSE tasks[m - 1].pc # "new"
  /\ Commit(onMessageBegin(MessageCreate(Store, c), m, c))
  /\ Others

Submit(m) ==
  /\ tasks[m].pc = "mkdir"
  /\ Commit(onMessageSubmit(Store, m))
  /\ Others

\* ctx.deferReply and ctx.editReply succeeded: the 30 s timer is armed and
\* sendToClaudeCode runs up to its first await.
onClaudeStart(S, m) ==
  executeWithErrorHandling(
    [S EXCEPT !.tk[m].pc = "run", !.tk[m].timeoutId = TRUE, !.tk[m].streamMessageCount = 0,
              !.tk[m].cwd = None], m, 1)

Start(m) ==
  /\ tasks[m].pc = "defer"
  /\ Commit(onClaudeStart(Store, m))
  /\ Others

\* ctx.deferReply or ctx.editReply threw: onClaude rejects before its try.
DeferFail(m) ==
  /\ tasks[m].pc = "defer"
  /\ fails < MaxFails
  /\ Commit([Store EXCEPT !.tk[m] = settled([@ EXCEPT !.cwd = None, !.sessionId = Null],
                                            "crashed", "none", "none")])
  /\ fails' = fails + 1
  /\ UNCHANGED <<cmds, shutdown, conf>>

Event(m) ==
  /\ tasks[m].pc = "run"
  /\ Commit(onEvent(Store, m))
  /\ Others

StreamEnd(m, hasSid) ==
  /\ tasks[m].pc = "run"
  /\ hasSid => tasks[m].messageCount > 0
  /\ Commit(attemptReturned(Store, m, hasSid))
  /\ Others

StreamThrow(m, e) ==
  /\ tasks[m].pc = "run"
  /\ Commit(onThrow(Store, m, e))
  /\ Others

StartupTimeout(m) ==
  /\ tasks[m].pc = "run"
  /\ tasks[m].timeoutId
  /\ Commit(onStartupTimeout(Store, m))
  /\ Others

\* The callback of a timer of executeWithErrorHandling.  A startup timer that
\* is still armed belongs to an attempt that has received no message (the
\* first message replaces it), so its test messageCount === 0 holds.
\* The callback of the activity timer that aborts leaves "fired" in the
\* timer's slot (timeoutId keeps the id of the dead timer) until the task
\* settles.
onInnerTimeout(S, m, k) ==
  LET live == S.tk[m].innerTimer[k] = "activity" /\ m \notin S.ab /\ S.tk[m].pc = "run"
      S0 == [S EXCEPT !.tk[m].innerTimer[k] = IF live THEN "fired" ELSE "none"]
  IN IF m \notin S.ab THEN abort(S0, m) ELSE S0

\* A timer of executeWithErrorHandling fired.  The startup timer of an attempt
\* is set after the 30 s timer of onClaude with the same delay, so it fires
\* after it.
InnerTimeout(m, k) ==
  /\ tasks[m].innerTimer[k] \in {"startup", "activity"}
  /\ tasks[m].innerTimer[k] = "startup" => ~tasks[m].timeoutId
  /\ Commit(onInnerTimeout(Store, m, k))
  /\ Others

\* The awaited terminal notification (completion, "No Response", error) was
\* delivered: onClaude returns and processMessage drains the queue.
NotifyDone(m) ==
  /\ tasks[m].pc = "notify"
  /\ Commit(drainQueue(Store, m))
  /\ Others

\* The awaited notification threw: inside the try block it lands in the catch
\* block, inside the catch block it escapes onClaude.
onNotifyFail(S, m) ==
  IF S.tk[m].note = "error"
    THEN [S EXCEPT !.tk[m] = settled(@, "crashed", "none", "none")]
    ELSE catchPath(S, m, "delivery")

NotifyFail(m) ==
  /\ tasks[m].pc = "notify"
  /\ fails < MaxFails
  /\ Commit(onNotifyFail(Store, m))
  /\ fails' = fails + 1
  /\ UNCHANGED <<cmds, shutdown, conf>>

\* ----------------------------------------------------------- slash commands
setChannel(S, c) == [S EXCEPT !.act = c]

cancelCommand(S, c) == onClaudeCancel(setChannel(S, c))
newCommand(S, c) == setSessionId(onClaudeCancel(setChannel(S, c)), Null)
statusCommand(S, c) == touch(setChannel(S, c))
modelCommand(S, c) == setChannel(S, c)

\* The title of the embed a command replies with (for /status, the Status
\* field: isRunning).
cancelReply(S, c) == IF cancelled(setChannel(S, c)) THEN "Cancelled" ELSE "Nothing to Cancel"
statusReply(S, c) ==
  LET k == getController(setChannel(S, c))
  IN IF k # Null /\ k \notin S.ab THEN "Running" ELSE "Idle"

Command(S) ==
  /\ cmds < MaxCmds
  /\ Commit(S)
  /\ cmds' = cmds + 1
  /\ UNCHANGED <<fails, shutdown, conf>>

Cancel(c) ==
  /\ Input(c)
  /\ Command([cancelCommand(handleCommand(Store, c), c) EXCEPT
                !.ff = IF cancelled(setChannel(Store, c)) THEN @ \cup {c} ELSE @])
New(c) ==
  /\ Input(c)
  /\ Command([newCommand(handleCommand(Store, c), c) EXCEPT
                !.ff = IF cancelled(setChannel(Store, c)) THEN @ \cup {c} ELSE @,
                !.nw = IF conf.hist THEN @ \cup {c} ELSE @])
Status(c) == Input(c) /\ Command(statusCommand(handleCommand(Store, c), c))
Model(c) == Input(c) /\ Command(modelCommand(handleCommand(Store, c), c))

\* ------------------------------------------------------------- persistence
WriteDone(w) ==
  /\ w \in pendingWrites
  /\ persisted' = w
  /\ pendingWrites' = pendingWrites \ {w}
  /\ UNCHANGED <<channelSessions, activeChannelId, activeChannel, aborted, tasks, cmds, forfeit, renewed, fails, shutdown, toolCall, runner, conf>>

WriteFail(w) ==
  /\ w \in pendingWrites
  /\ pendingWrites' = pendingWrites \ {w}
  /\ UNCHANGED <<channelSessions, activeChannelId, activeChannel, aborted, tasks, persisted, cmds, forfeit, renewed, fails, shutdown, toolCall, runner, conf>>

\* ---------------------------------------------------------------- shutdown
abortAllSessions(S) ==
  [S EXCEPT !.ab = @ \cup {S.cs[c].controller : c \in {d \in Channels : S.cs[d].controller # Null}}]

Shutdown ==
  /\ ~shutdown
  /\ Commit(abortAllSessions(Store))
  /\ shutdown' = TRUE
  /\ UNCHANGED <<cmds, fails, conf>>

Flow ==
  \/ \E m \in Msgs, c \in Channels : Arrive(m, c)
  \/ \E m \in Msgs : Submit(m)
  \/ \E m \in Msgs : Start(m)
  \/ \E m \in Msgs : Event(m)
  \/ \E m \in Msgs, hasSid \in BOOLEAN : StreamEnd(m, hasSid)
  \/ \E m \in Msgs : NotifyDone(m)
  \/ \E c \in Channels : Cancel(c)
  \/ \E c \in Channels : New(c)
  \/ \E c \in Channels : Status(c)
  \/ \E c \in Channels : Model(c)

Failures ==
  \/ \E m \in Msgs : DeferFail(m)
  \/ \E m \in Msgs, e \in ErrKinds : StreamThrow(m, e)
  \/ \E m \in Msgs : StartupTimeout(m)
  \/ \E m \in Msgs, k \in {1, 2} : InnerTimeout(m, k)
  \/ \E m \in Msgs : NotifyFail(m)
  \/ Shutdown

Writes ==
  \/ \E w \in pendingWrites : WriteDone(w)
  \/ \E w \in pendingWrites : WriteFail(w)

Next == Flow \/ Failures
NextDisk == Flow \/ Writes

\* The orchestrator in full: failures of the CLI and of the Discord API,
\* timers, shutdown; a write of the session file ends before the next step.
Spec == Init /\ [][Next]_vars
\* The queue with more messages, in an environment where the CLI and the
\* Discord API do not fail and no timer fires.
SpecQueue == InitQueue /\ [][Flow]_vars
\* The session file with writes that end, or fail, in any order, in the
\* environment of SpecQueue.
SpecDisk == InitDisk /\ [][NextDisk]_vars
\* A process started on the session file of a former process, in the
\* environment of SpecDisk.
SpecRestart == InitRestart /\ [][NextDisk]_vars

\* The environment of SpecQueue with two messages, where every await of the
\* flow ends: the mkdir of onMessage, the replies of onClaude, the stream of
\* the CLI (each dispatched task settles) and the terminal notification.
Progress ==
  \A m \in 1..MaxMsgs :
    /\ WF_vars(Submit(m))
    /\ WF_vars(Start(m))
    /\ WF_vars(\E hasSid \in BOOLEAN : StreamEnd(m, hasSid))
    /\ WF_vars(NotifyDone(m))
SpecLive == Init /\ [][Flow]_vars /\ Progress

\* The messages and the timers of executeWithErrorHandling, where the awaits
\* of the orchestrator end and the timers fire, and the stream of the CLI
\* may stay silent for ever: it need neither yield nor end.
NextStall ==
  \/ \E m \in Msgs, c \in Channels : Arrive(m, c)
  \/ \E m \in Msgs : Submit(m)
  \/ \E m \in Msgs : Start(m)
  \/ \E m \in Msgs : Event(m)
  \/ \E m \in Msgs, hasSid \in BOOLEAN : StreamEnd(m, hasSid)
  \/ \E m \in Msgs : NotifyDone(m)
  \/ \E m \in Msgs, k \in {1, 2} : InnerTimeout(m, k)
Deadlines ==
  \A m \in 1..MaxMsgs :
    /\ WF_vars(Submit(m))
    /\ WF_vars(Start(m))
    /\ WF_vars(NotifyDone(m))
    /\ WF_vars(\E k \in {1, 2} : InnerTimeout(m, k))
SpecStall == Init /\ [][NextStall]_vars /\ Deadlines

\* ------------------------------------------------------------------ claims
\* A task is in flight from its dispatch (processMessage calls onClaude) until
\* the race of onClaude is decided.
inFlight(t) == t.pc \in {"defer", "run"}
inFlightOn(c) == {m \in Msgs : tasks[m].chan = c /\ inFlight(tasks[m])}
waiting(t) == t.pc \in {"mkdir", "queued"}
settles(m) == inFlight(tasks[m]) /\ ~inFlight(tasks'[m])
handleOf(S, c) == <<S.cs[c].controller, S.cs[c].controller \in S.ab>>

\* C1: in every reachable state each channel has at most one task in flight; a
\* message that arrives while a task of its channel is in flight is queued
\* and starts no second task.
C1_OneTaskPerChannel == \A c \in Channels : Cardinality(inFlightOn(c)) <= 1

\* C2: the messages queued on a channel are dispatched in the order they were
\* submitted, each one after the one before it has settled: in a step that
\* dispatches a queued message m, no message of that channel submitted before
\* m is still in the queue or still in flight.
C2_QueueDispatch(m) ==
  tasks[m].pc = "queued" /\ tasks'[m].pc # "queued" =>
    \A n \in 1..(m - 1) : tasks[n].chan = tasks[m].chan =>
      tasks[n].pc # "queued" /\ ~inFlight(tasks'[n])
C2_FifoOrder == [][\A m \in Msgs : C2_QueueDispatch(m)]_vars

\* C3: the step in which a task settles clears the handle of the task's
\* channel, and no reachable state has a channel holding a handle that is not
\* null and not aborted while no task of the channel is in flight.
C3_NoWedge ==
  \A c \in Channels : busy(Store, c) => inFlightOn(c) # {}
C3_SettleClears(m) ==
  settles(m) => channelSessions'[tasks[m].chan].controller # m
C3_HandleCleared == [][(\A m \in Msgs : C3_SettleClears(m)) /\ C3_NoWedge']_vars

\* C4: a step performed for a channel leaves the handle, the session id and
\* the queue of every other channel as they were.
OpOn(b) ==
  \/ \E m \in Msgs : Arrive(m, b)
  \/ \E m \in Msgs :
       /\ tasks[m].chan = b
       /\ \/ Submit(m) \/ Start(m) \/ DeferFail(m) \/ Event(m)
          \/ \E h \in BOOLEAN : StreamEnd(m, h)
          \/ \E e \in ErrKinds : StreamThrow(m, e)
          \/ StartupTimeout(m)
          \/ \E k \in {1, 2} : InnerTimeout(m, k)
          \/ NotifyDone(m) \/ NotifyFail(m)
  \/ Cancel(b) \/ New(b) \/ Status(b) \/ Model(b)
C4_Frame(b) ==
  \A a \in Channels \ {b} :
    /\ handleOf(Store', a) = handleOf(Store, a)
    /\ channelSessions'[a].sessionId = channelSessions[a].sessionId
    /\ channelSessions'[a].messageQueue = channelSessions[a].messageQueue
C4_ChannelsIndependent == [][\A b \in Channels : OpOn(b) => C4_Frame(b)]_vars

\* C5: the session id of a channel is replaced only by the id of a task of
\* that channel that completes in the same step, and is cleared only by a
\* /cancel or /new for that channel; a task that ends by an error, a timeout
\* or the shutdown abort leaves it as it was.
completes(m) == tasks[m].pc = "run" /\ m \notin aborted /\ \E h \in BOOLEAN : StreamEnd(m, h)
C5_Write(c) ==
  LET old == channelSessions[c].sessionId
      new == channelSessions'[c].sessionId
  IN new # old =>
       IF new = Null
         THEN Cancel(c) \/ New(c)
         ELSE tasks[new].chan = c /\ completes(new)
C5_SessionIdWrites == [][\A c \in Channels : C5_Write(c)]_vars

\* C6: a /cancel on a channel with N queued messages empties the queue and
\* leaves the channel idle, so that none of the N is dispatched afterwards
\* and the next message is dispatched at once.
C6_CancelStep(c) ==
  Cancel(c) => channelSessions'[c].messageQueue = <<>> /\ ~busy(Store', c)
C6_CancelDiscardsQueue == [][\A c \in Channels : C6_CancelStep(c)]_vars

\* C7: a /cancel on a channel with a task running aborts the channel's handle
\* and with it the tasks in flight on the channel; from then until the next
\* dispatch on the channel its session id is absent, and the task dispatched
\* next is passed no resume token.
C7_Aborts(c) ==
  Cancel(c) /\ channelSessions[c].controller # Null =>
    /\ channelSessions[c].controller \in aborted'
    /\ inFlightOn(c) \subseteq aborted'
C7_NoToken(m) ==
  waiting(tasks[m]) /\ tasks[m].chan \in forfeit /\ tasks'[m].pc = "defer" =>
    tasks'[m].sessionId = Null
C7_CancelRunning ==
  [][/\ \A c \in Channels : C7_Aborts(c)
     /\ \A c \in forfeit' : channelSessions'[c].sessionId = Null
     /\ \A m \in Msgs : C7_NoToken(m)]_vars

\* C8: a /cancel on an idle channel (no task of the channel is in flight)
\* replies "Nothing to Cancel" (onClaudeCancel returns false), discards
\* nothing and leaves the handles, session ids and queues of all channels, the
\* tasks and the session file as they were; a second /cancel does the same.
C8_Same(S, T) ==
  /\ \A d \in Channels :
       /\ handleOf(T, d) = handleOf(S, d)
       /\ T.cs[d].sessionId = S.cs[d].sessionId
       /\ T.cs[d].messageQueue = S.cs[d].messageQueue
  /\ T.fs = S.fs /\ T.pw = S.pw /\ T.tk = S.tk
C8_IdleCancel(c) ==
  LET S1 == cancelCommand(Store, c)
      S2 == cancelCommand(S1, c)
  IN inFlightOn(c) = {} =>
       /\ cancelReply(Store, c) = "Nothing to Cancel"
       /\ C8_Same(Store, S1)
       /\ cancelReply(S1, c) = "Nothing to Cancel"
       /\ S2 = S1
C8_IdleCancelNoOp == \A c \in Channels : C8_IdleCancel(c)

\* C9: every dispatched task ends through one delivered terminal
\* notification: a task becomes done only in the step that delivers its
\* completion, "No Response" or error message.
C9_Ends(m) == tasks[m].pc # "done" /\ tasks'[m].pc = "done" => tasks[m].pc = "notify"
C9_OneNotification == [][\A m \in Msgs : C9_Ends(m)]_vars

\* C10: while a running task has received no event its 30 s timer is pending;
\* when the timer fires the task's controller is aborted and the task is
\* reported by the error message, as a startup timeout; no other outcome (a
\* /cancel, an activity timeout) is reported as a startup timeout.
C10_Step(m) ==
  /\ tasks'[m].pc = "run" /\ tasks'[m].streamMessageCount = 0 => tasks'[m].timeoutId
  /\ StartupTimeout(m) =>
       /\ m \in aborted'
       /\ tasks'[m].pc = "notify" /\ tasks'[m].note = "error"
       /\ tasks'[m].result = "startup_timeout"
  /\ tasks'[m].result = "startup_timeout" /\ tasks[m].result # "startup_timeout" =>
       /\ StartupTimeout(m)
       /\ tasks[m].streamMessageCount = 0
  /\ tasks'[m].result = "startup_timeout" =>
       m \in aborted' /\ tasks'[m].pc = "notify" /\ tasks'[m].note = "error"
C10_StartupTimeout == [][\A m \in Msgs : C10_Step(m)]_vars
\* The error message of a startup timeout is being sent.
C10_Witness ==
  \E m \in Msgs :
    tasks[m].pc = "notify" /\ tasks[m].result = "startup_timeout" /\ m \in aborted

\* C11: a task that has received an event and is aborted by its activity
\* timer settles with an error message sent to the user, and its outcome is
\* not the one of a user cancellation.
activityTimedOut(t) == t.pc = "run" /\ \E k \in 1..2 : t.innerTimer[k] = "fired"
C11_Settle(m) ==
  settles(m) /\ activityTimedOut(tasks[m]) =>
    /\ tasks'[m].pc = "notify" /\ tasks'[m].note = "error"
    /\ tasks'[m].result # "cancelled"
C11_ActivityTimeout == [][\A m \in Msgs : C11_Settle(m)]_vars

\* C12: a task has at most one liveness timer armed, counting the 30 s timer
\* of onClaude and the timers of both attempts of sendToClaudeCode; an
\* attempt that has ended, and so a task that has settled, has none armed.
armed(t, k) == t.innerTimer[k] \in {"startup", "activity"}
armedTimers(t) ==
  (IF t.timeoutId THEN 1 ELSE 0) + Cardinality({k \in 1..2 : armed(t, k)})
C12_Task(t) ==
  /\ armedTimers(t) <= 1
  /\ t.attempt = 2 => ~armed(t, 1)
  /\ t.pc # "run" => armedTimers(t) = 0
C12_OneTimer == \A m \in Msgs : C12_Task(tasks[m])


\* C13: a first attempt that fails with the exit-code-1 signature (its handle
\* not aborted) is followed by one further attempt of the task and no more (a
\* step that ends attempt 1 without starting attempt 2 is not that failure);
\* that second attempt uses the fallback model and passes no resume token,
\* whether or not the task was handed a stored session id.
retries(m) == tasks[m].attempt = 1 /\ tasks'[m].attempt = 2
\* The running attempt of task m ends in this step.
attemptEnds(m) ==
  tasks[m].pc = "run" /\ (tasks'[m].pc # "run" \/ tasks'[m].attempt # tasks[m].attempt)
AbortErrors == {e \in ErrKinds : isAbort(e)}
exit1 == [name |-> "Error", code |-> 1]
C13_Step(m) ==
  /\ tasks[m].attempt = 1 /\ m \notin aborted /\ attemptEnds(m)
       /\ ~(retries(m) /\ tasks'[m].pc = "run") => ~StreamThrow(m, exit1)
  /\ retries(m) => tasks'[m].query = [model |-> FallbackModel, resume |-> Null]
  /\ tasks[m].attempt = 2 =>
       \/ tasks'[m].attempt = 0
       \/ tasks'[m].attempt = 2 /\ tasks'[m].query = tasks[m].query
C13_RetryOnce == [][\A m \in Msgs : C13_Step(m)]_vars
C13_Witness ==
  \E m \in Msgs :
    /\ tasks[m].attempt = 2 /\ tasks[m].sessionId # Null
    /\ tasks[m].query = [model |-> FallbackModel, resume |-> Null]

\* C14: a retry attempt that fails (its handle not aborted) settles the task
\* with the error of the retry, reported as an error (a step that ends
\* attempt 2 otherwise is not a throw of such an error); a task is dispatched
\* once and its attempts are numbered 1 and 2, attempt 2 never being followed
\* by another attempt.
C14_Step(m) ==
  /\ tasks[m].attempt = 2 /\ m \notin aborted /\ attemptEnds(m)
       /\ ~(/\ tasks'[m].pc = "notify" /\ tasks'[m].note = "error"
            /\ tasks'[m].result = "retry_failed") =>
         \A e \in ErrKinds \ AbortErrors : ~StreamThrow(m, e)
  /\ tasks'[m].attempt \in 0..2
  /\ tasks'[m].attempt = 1 => tasks[m].attempt = 1 \/ tasks[m].pc = "defer"
  /\ tasks'[m].attempt = 2 => tasks[m].attempt \in {1, 2}
  /\ tasks'[m].pc = "defer" => tasks[m].pc \in {"defer", "mkdir", "queued"}
C14_RetryFails == [][\A m \in Msgs : C14_Step(m)]_vars
C14_Witness ==
  \E m \in Msgs :
    tasks[m].pc = "notify" /\ tasks[m].note = "error" /\ tasks[m].result = "retry_failed"

\* C15: once the handle of a task is aborted, no attempt of the task starts
\* after one has started: a running attempt of an aborted task goes on or
\* the task settles, an attempt that ends with the abort signature settles
\* the task, and a settled task starts no attempt.
C15_Step(m) ==
  /\ tasks[m].attempt >= 1 /\ (m \in aborted \/ m \in aborted') =>
       tasks'[m].attempt \in {tasks[m].attempt, 0}
  /\ attemptEnds(m) /\ tasks'[m].attempt # 0 => \A e \in AbortErrors : ~StreamThrow(m, e)
  /\ tasks[m].attempt = 0 /\ tasks[m].pc # "defer" => tasks'[m].attempt = 0
C15_NoRetryAfterAbort == [][\A m \in Msgs : C15_Step(m)]_vars
C15_Witness ==
  \E m \in Msgs :
    m \in aborted /\ tasks[m].pc = "notify" /\ tasks[m].result = "cancelled"

\* C16: only a failure with exit code 1 starts a second attempt: a step that
\* starts attempt 2 is neither the completion of attempt 1 nor its failure
\* with another error, and a first attempt that fails with another error
\* (its handle not aborted, the error not an abort) settles the task with
\* that error.
C16_Step(m) ==
  /\ retries(m) =>
       /\ \A e \in ErrKinds \ {exit1} : ~StreamThrow(m, e)
       /\ \A hasSid \in BOOLEAN : ~StreamEnd(m, hasSid)
  /\ tasks[m].attempt = 1 /\ m \notin aborted /\ attemptEnds(m)
       /\ ~(/\ tasks'[m].pc = "notify" /\ tasks'[m].note = "error"
            /\ tasks'[m].result = "error") =>
         \A e \in ErrKinds \ (AbortErrors \cup {exit1}) : ~StreamThrow(m, e)
C16_RetryOnlyOnExitCode1 == [][\A m \in Msgs : C16_Step(m)]_vars

\* C17: a task that completes with a session id makes that id the session id
\* of its channel and issues a write of the map holding it, and the user is
\* sent the completion; a write that fails changes neither the session ids
\* in memory nor any task's outcome.
C17_Step(m) ==
  tasks[m].pc = "run" /\ m \notin aborted /\ StreamEnd(m, TRUE) =>
    /\ channelSessions'[tasks[m].chan].sessionId = m
    /\ \E w \in pendingWrites' \ pendingWrites : w[tasks[m].chan] = m
    /\ tasks'[m].pc = "notify" /\ tasks'[m].note = "completion"
    /\ tasks'[m].result = "success"
C17_SessionIdStored ==
  [][/\ \A m \in Msgs : C17_Step(m)
     /\ \A w \in pendingWrites : WriteFail(w) => UNCHANGED <<channelSessions, tasks>>]_vars

\* C18: a process started on a session file has, before its first input, each
\* channel of the file restored with the id of the file, no handle and an
\* empty queue; the first message submitted for such a channel (no /cancel
\* or /new having cleared the channel before) is dispatched in that step and
\* is passed the id of the file as resume token.
savedIn(f, c) == f # Damaged /\ f[c] # Null
restoredFrom(f, c) ==
  /\ channelSessions[c].exists
  /\ channelSessions[c].controller = Null
  /\ channelSessions[c].sessionId = f[c]
  /\ channelSessions[c].messageQueue = <<>>
firstOn(m) ==
  \A n \in Msgs \ {m} : tasks[n].chan = tasks[m].chan => tasks[n].pc = "mkdir"
C18_First(m) ==
  LET c == tasks[m].chan
  IN /\ tasks[m].pc = "mkdir" /\ firstOn(m) /\ savedIn(conf.file, c)
     /\ c \notin forfeit \cup renewed /\ Submit(m)
     => /\ tasks'[m].pc = "defer"
        /\ resumeToken(tasks'[m], 1) = conf.file[c]
C18_Restart ==
  [][/\ activeChannelId = None =>
          \A c \in Channels : savedIn(conf.file, c) => restoredFrom(conf.file, c)
     /\ \A m \in Msgs : C18_First(m)
     /\ \A m \in Msgs : Start(m) => tasks'[m].query.resume = resumeToken(tasks[m], 1)]_vars

\* C19: a /new in a channel, idle or running, leaves the channel without a
\* session id and issues a write of a map without the channel's entry, and
\* the next task dispatched for the channel is passed no resume token.
C19_New(c) ==
  New(c) =>
    /\ channelSessions'[c].sessionId = Null
    /\ [d \in Channels |-> channelSessions'[d].sessionId] \in pendingWrites'
C19_NoToken(m) ==
  waiting(tasks[m]) /\ tasks[m].chan \in renewed /\ tasks'[m].pc = "defer" =>
    resumeToken(tasks'[m], 1) = Null
C19_NewSession ==
  [][/\ \A c \in Channels : C19_New(c)
     /\ \A m \in Msgs : C19_NoToken(m)]_vars

\* C20: a message submitted to a busy channel is appended to the end of the
\* channel's queue, which grows by that one message while the other queues
\* stay as they are, and the position reported is the length of the queue
\* after the append: one more than the number of messages queued before it.
C20_Step(m) ==
  LET c == tasks[m].chan
      q == channelSessions[c].messageQueue
  IN tasks[m].pc = "mkdir" /\ busy(Store, c) /\ Submit(m) =>
       /\ channelSessions'[c].messageQueue = Append(q, m)
       /\ queuePosition(Store', m) = Len(q) + 1
       /\ tasks'[m].pc = "queued"
       /\ \A d \in Channels \ {c} :
            channelSessions'[d].messageQueue = channelSessions[d].messageQueue
C20_QueuePosition == [][\A m \in Msgs : C20_Step(m)]_vars
C20_Witness ==
  \E m \in Msgs :
    /\ tasks[m].pc = "queued" /\ queuePosition(Store, m) = 2
    /\ channelSessions[tasks[m].chan].messageQueue[2] = m

\* C21: the queue of a channel grows only in a step taken while a task of
\* that channel is in flight, and a message submitted for a channel with no
\* task in flight is dispatched in that step and queued nowhere.
C21_Grows(c) ==
  Len(channelSessions'[c].messageQueue) > Len(channelSessions[c].messageQueue) =>
    inFlightOn(c) # {}
C21_Submit(m) ==
  tasks[m].pc = "mkdir" /\ inFlightOn(tasks[m].chan) = {} /\ Submit(m) =>
    /\ tasks'[m].pc = "defer"
    /\ \A c \in Channels : channelSessions'[c].messageQueue = channelSessions[c].messageQueue
C21_QueueOnlyWhileBusy ==
  [][(\A c \in Channels : C21_Grows(c)) /\ (\A m \in Msgs : C21_Submit(m))]_vars

\* C22: where every dispatched task settles, a message placed in the queue
\* of a channel is eventually dispatched, and once every message has arrived
\* each channel eventually has no handle, no task in flight and an empty
\* queue, for good.
idle(c) ==
  /\ channelSessions[c].controller = Null
  /\ channelSessions[c].messageQueue = <<>>
  /\ inFlightOn(c) = {}
allArrived == \A m \in 1..MaxMsgs : tasks[m].pc # "new"
C22_QueueDrains ==
  /\ \A m \in 1..MaxMsgs : (tasks[m].pc = "queued") ~> (tasks[m].pc # "queued")
  /\ allArrived ~> [](\A c \in Channels : idle(c))

\* C23: a running task whose activity timer is armed is eventually treated
\* as settled, whether or not its stream yields or ends: it is no longer in
\* flight and the handle of its channel is no longer its own.
stalls(m) == tasks[m].pc = "run" /\ \E k \in {1, 2} : tasks[m].innerTimer[k] = "activity"
released(m) == ~inFlight(tasks[m]) /\ \A c \in Channels : channelSessions[c].controller # m
C23_ActivityBackstop == \A m \in 1..MaxMsgs : stalls(m) ~> released(m)

\* C24: a call of the Discord API that throws for a task (the replies before
\* the run, the terminal notification) aborts no handle, leaves no channel
\* holding the handle of the task, and does not make onClaude reject, which
\* would keep processMessage from draining the queue.
deliveryFails(m) == fails' # fails /\ (DeferFail(m) \/ NotifyFail(m))
C24_Step(m) ==
  deliveryFails(m) =>
    /\ aborted' = aborted
    /\ \A c \in Channels : channelSessions'[c].controller # m
    /\ tasks'[m].pc # "crashed"
C24_DeliveryFailure == [][\A m \in Msgs : C24_Step(m)]_vars

\* C25: a task that is dispatched, directly or from the queue, is passed the
\* session id its own channel holds at that moment, which the run then
\* passes as resume token; so a message drained when a task that completed
\* with a session id returns (no /cancel or /new on the channel since) is
\* passed the id of that task.
C25_Dispatch(m) ==
  waiting(tasks[m]) /\ tasks'[m].pc = "defer" =>
    resumeToken(tasks'[m], 1) = channelSessions[tasks[m].chan].sessionId
C25_Drained(n) ==
  LET c == tasks[n].chan
      q == channelSessions[c].messageQueue
  IN /\ tasks[n].pc = "notify" /\ tasks[n].note = "completion" /\ q # <<>>
     /\ c \notin forfeit \cup renewed /\ NotifyDone(n)
     => resumeToken(tasks'[Head(q)], 1) = n
C25_ResumeToken ==
  [][/\ \A m \in Msgs : C25_Dispatch(m)
     /\ \A m \in Msgs : tasks[m].pc = "defer" /\ tasks'[m].pc = "run" =>
          tasks'[m].query.resume = resumeToken(tasks[m], 1)
     /\ \A n \in Msgs : C25_Drained(n)]_vars

\* C26: the working directory onClaude resolves for a dispatched task, and
\* runs it in, is the folder of the task's own channel.
C26_OwnWorkDir == \A m \in Msgs : tasks[m].pc = "defer" => tasks[m].cwd = tasks[m].chan

\* C27: getChannelSession is idempotent.  In every reachable state, for every
\* channel and every name: a call for a channel without an entry creates one
\* with no handle, no session id, an empty queue and the folder of the name
\* (of the id where no name is given), and leaves the other entries as they
\* are; a call for a channel with an entry changes nothing, and a second call
\* under any name changes nothing after the first.
C27_Call(c, name) ==
  LET T == getChannelSession(Store, c, name)
  IN /\ channelSessions[c].exists => T = Store
     /\ ~channelSessions[c].exists =>
          /\ T.cs[c] = [exists |-> TRUE, controller |-> Null, sessionId |-> Null,
                        messageQueue |-> <<>>, channelWorkDir |-> folderName(c, name)]
          /\ T = [Store EXCEPT !.cs[c] = T.cs[c]]
     /\ \A other \in Labels : getChannelSession(T, c, other) = T
C27_Idempotent == \A c \in Channels, name \in Labels : C27_Call(c, name)
C27_Witness ==
  \E c \in Channels :
    /\ channelSessions[c].exists /\ channelSessions[c].controller # Null
    /\ channelSessions[c].sessionId # Null /\ channelSessions[c].messageQueue # <<>>

\* C28: a process started without a session file, or on one JSON.parse
\* rejects, has an empty map before its first input and takes its input (a
\* message can arrive); a write of the session file that fails changes
\* neither the map nor any task, handle or the active channel.
loadFailed == conf.file \in {NoFile, Damaged}
C28_Load ==
  activeChannelId = None /\ loadFailed =>
    /\ \A c \in Channels : channelSessions[c] = NoSession
    /\ ENABLED Arrive(1, "a")
C28_Save ==
  \A w \in pendingWrites :
    WriteFail(w) => UNCHANGED <<channelSessions, tasks, aborted, activeChannelId, persisted>>
C28_PersistenceFailures == [][C28_Load /\ C28_Save]_vars
C28_Witness ==
  /\ conf.file = Damaged /\ persisted = Damaged /\ pendingWrites = {}
  /\ \E c \in Channels : channelSessions[c].sessionId # Null

\* C29: in every reachable state a channel holds a handle exactly when one
\* of its tasks is in flight, and the handle it holds is that of a task of
\* the channel that is in flight.
C29_HandleOwner ==
  \A c \in Channels :
    /\ channelSessions[c].controller # Null <=> inFlightOn(c) # {}
    /\ channelSessions[c].controller # Null => channelSessions[c].controller \in inFlightOn(c)

\* C30: when a task whose handle was aborted returns from its run, or from
\* its terminal notification, while the channel holds the handle of a newer
\* task of the channel that is in flight, the step leaves that handle and
\* the session id of the channel as they are and dispatches no queued
\* message.
returns(m) == tasks[m].pc \in {"run", "notify"} /\ tasks'[m].pc # tasks[m].pc
C30_Step(m) ==
  LET c == tasks[m].chan
      n == channelSessions[c].controller
  IN /\ m \in aborted /\ returns(m)
     /\ n # Null /\ n # m /\ n \in inFlightOn(c)
     => /\ channelSessions'[c].controller = n
        /\ channelSessions'[c].sessionId = channelSessions[c].sessionId
        /\ \A k \in Msgs : tasks[k].pc = "queued" => tasks'[k].pc = "queued"
C30_LateSettle == [][\A m \in Msgs : C30_Step(m)]_vars

\* C31: a message is dispatched only when no message submitted before it is
\* waiting in the queue of its channel: a message dispatched at its own
\* submission finds that queue empty, and a message dispatched from the
\* queue is its head.
C31_Step(m) ==
  LET q == channelSessions[tasks[m].chan].messageQueue
  IN waiting(tasks[m]) /\ tasks'[m].pc = "defer" =>
       IF tasks[m].pc = "mkdir" THEN q = <<>> ELSE q # <<>> /\ Head(q) = m
C31_NoOvertaking == [][\A m \in Msgs : C31_Step(m)]_vars

\* C32: a startup timer never aborts a task whose current attempt has
\* received an event: no step in which a startup timer of the task fires
\* (the timer of the current attempt or the one left by the failed first
\* attempt) aborts the handle of a running task with messageCount > 0.
startupFires(m, k) ==
  /\ tasks[m].innerTimer[k] = "startup"
  /\ tasks'[m].innerTimer[k] = "none"
  /\ m \notin aborted
  /\ m \in aborted'
C32_Step(m) ==
  tasks[m].pc = "run" /\ tasks[m].messageCount > 0 => \A k \in 1..2 : ~startupFires(m, k)
C32_StartupDeadline == [][\A m \in Msgs : C32_Step(m)]_vars

\* C33: the events a task streams and its completion notification are
\* delivered to the channel the task was submitted in (the error and "No
\* Response" notifications are edits of the task's own reply).
getChannel == activeChannel
streams(m) ==
  /\ tasks[m].pc = "run"
  /\ m \notin aborted
  /\ tasks'[m].messageCount > tasks[m].messageCount
sendsCompletion(m) ==
  /\ tasks[m].pc = "run"
  /\ tasks'[m].pc = "notify"
  /\ tasks'[m].note = "completion"
C33_Step(m) == streams(m) \/ sendsCompletion(m) => getChannel = tasks[m].chan
C33_OwnChannel == [][\A m \in Msgs : C33_Step(m)]_vars

\* C34: when no write of the session file is in flight, the file holds the
\* session ids of the registry: for every channel the saved id is the id the
\* channel holds in memory, and a channel holding none has no entry.
C34_SavedEqualsRegistry == pendingWrites = {} => persisted = snapshot(Store)

\* C35: /status in a channel reports Running exactly when a task of that
\* channel is in flight, and reports the session id and the working
\* directory of that channel.
C35_Reply(c) ==
  LET S == statusCommand(handleCommand(Store, c), c)
  IN /\ statusReply(Store, c) = "Running" <=> inFlightOn(c) # {}
     /\ getSessionId(S) = channelSessions[c].sessionId
     /\ getClaudeWorkDir(S) = folderName(c, channelName(c))
C35_Status == [][\A c \in Channels : ~C35_Reply(c) => ~Status(c)]_vars

\* C36: handleSignal aborts the handle of every task in flight, on whatever
\* number of channels tasks are running.
C36_Step == ~shutdown /\ shutdown' => \A m \in Msgs : inFlight(tasks[m]) => m \in aborted'
C36_ShutdownAbortsAll == [][C36_Step]_vars

\* ------------------------------------------------ the guard, call by call
\* The SDK of a query about to ask the guard about a tool call, and the call.
PendingCalls ==
  UNION {{[root |-> root, cwd |-> cwd, toolName |-> name, input |-> input, result |-> NoResult] :
            cwd \in WorkDirs(root), name \in ToolNames, input \in ToolInputs} :
         root \in WorkspaceRoots}
InitGuard ==
  /\ channelSessions = loadSessionState(NoFile)
  /\ activeChannelId = None
  /\ activeChannel = firstChannel
  /\ aborted = {}
  /\ pendingWrites = {}
  /\ persisted = NoFile
  /\ tasks = [m \in Msgs |-> NewTask]
  /\ cmds = 0
  /\ forfeit = {}
  /\ renewed = {}
  /\ fails = 0
  /\ shutdown = FALSE
  /\ conf = [msgs |-> MaxMsgs, sync |-> TRUE, hist |-> FALSE, file |-> NoFile]
  /\ runner = RunnerStarted
  /\ toolCall \in PendingCalls

CanUseTool ==
  /\ toolCall.toolName # "none"
  /\ toolCall.result = NoResult
  /\ toolCall' = [toolCall EXCEPT !.result =
                    createWorkspaceWriteGuard(toolCall.root, toolCall.cwd,
                                              toolCall.toolName, toolCall.input)]
  /\ UNCHANGED <<channelSessions, activeChannelId, activeChannel, aborted, pendingWrites,
                 persisted, tasks, cmds, forfeit, renewed, fails, shutdown, runner, conf>>

NextGuard == CanUseTool
SpecGuard == InitGuard /\ [][NextGuard]_vars

\* The segments of a resolved path, and one path lying at or below another.
segmentsOf(base, path) ==
  normalizeSegments(split(IF isAbsolute(path) THEN path ELSE base \o <<Sep>> \o path),
                    <<>>, FALSE)
atOrBelow(p, r) == Len(p) >= Len(r) /\ SubSeq(p, 1, Len(r)) = r

\* C37: the guard denies a call exactly when the tool is Write, Edit or
\* NotebookEdit and the path of the call, resolved against the working
\* directory, is neither the workspace root nor below it; every other call is
\* allowed with its input unchanged.
C37_Outside(k) ==
  /\ writeToolPaths(k.toolName) = k.input.key
  /\ ~atOrBelow(segmentsOf(k.cwd, k.input.value), segmentsOf(<<Sep>>, k.root))
C37_WriteGuard ==
  toolCall.result # NoResult =>
    /\ toolCall.result.behavior = "deny" <=> C37_Outside(toolCall)
    /\ toolCall.result.behavior = "allow" => toolCall.result.updatedInput = toolCall.input

\* ---------------------------------------------- the runner, step by step
BotSteady ==
  UNCHANGED <<channelSessions, activeChannelId, activeChannel, aborted, pendingWrites,
              persisted, tasks, cmds, forfeit, renewed, fails, shutdown, toolCall, conf>>

\* The sleep of the loop ended: check_bot_alive, and check_and_update up to
\* git fetch.  A cycle starts a process at most twice.
Wake ==
  /\ runner.pc = "sleep"
  /\ Cardinality(started(runner)) + 2 <= MaxPids
  /\ runner' = [check_bot_alive(runner) EXCEPT !.pc = "fetch"]
  /\ BotSteady

Fetch(fetched) ==
  /\ runner.pc = "fetch"
  /\ runner' = check_and_update(runner, fetched)
  /\ BotSteady

Pull(connected) ==
  /\ runner.pc = "pull"
  /\ runner' = afterPull(runner, connected)
  /\ BotSteady

\* SIGINT or SIGTERM reached the runner.
Signal ==
  /\ runner.pc # "exited"
  /\ runner' = cleanup(runner)
  /\ BotSteady

\* The bot process exits by itself.
BotDies ==
  /\ runner.pc # "exited"
  /\ runner.BOT_PID # 0
  /\ runner.procs[runner.BOT_PID] = "alive"
  /\ runner' = [runner EXCEPT !.procs[runner.BOT_PID] = "died"]
  /\ BotSteady

\* A commit is pushed to the remote branch from elsewhere, a commit is made
\* on the local branch, the local branch is pushed.
RemoteCommit ==
  /\ runner.pc # "exited"
  /\ Cardinality(commits(runner)) < MaxCommits
  /\ runner' = [runner EXCEPT !.server = Append(@, Cardinality(commits(runner)) + 1)]
  /\ BotSteady

LocalCommit ==
  /\ runner.pc # "exited"
  /\ Cardinality(commits(runner)) < MaxCommits
  /\ runner' = [runner EXCEPT !.local = Append(@, Cardinality(commits(runner)) + 1)]
  /\ BotSteady

LocalPush ==
  /\ runner.pc # "exited"
  /\ isAncestor(runner.server, runner.local)
  /\ runner.server # runner.local
  /\ runner' = [runner EXCEPT !.server = runner.local]
  /\ BotSteady

NextRunner ==
  \/ Wake
  \/ \E fetched \in BOOLEAN : Fetch(fetched)
  \/ \E connected \in BOOLEAN : Pull(connected)
  \/ Signal
  \/ BotDies
  \/ RemoteCommit
  \/ LocalCommit
  \/ LocalPush
SpecRunner == Init /\ [][NextRunner]_vars

\* C38: the runner stops the running bot in a check cycle only when the
\* remote branch has commits the local branch lacks or the local HEAD is not
\* the running commit, and starts a bot in check_bot_alive only when the
\* process has died; so a repository that does not change between two checks
\* is no reason for a second restart.
stopsBot ==
  /\ runner.pc = "fetch"
  /\ runner'.pc # "exited"
  /\ runner.BOT_PID # 0
  /\ runner.procs[runner.BOT_PID] = "alive"
  /\ runner'.procs[runner.BOT_PID] = "killed"
remoteHasNewCommits == ~isAncestor(runner.server, runner.local)
localHeadMoved == HEAD(runner.local) # runner.RUNNING_COMMIT
C38_Step ==
  /\ stopsBot => remoteHasNewCommits \/ localHeadMoved
  /\ runner.pc = "sleep" /\ runner'.pc = "fetch" /\ runner'.BOT_PID # runner.BOT_PID =>
       runner.BOT_PID # 0 /\ runner.procs[runner.BOT_PID] = "died"
C38_RestartOnlyOnChange == [][C38_Step]_vars

\* C39: no two bot processes are alive at once, and at the end of a check
\* cycle the runner holds a bot process it has not stopped: every path of
\* the cycle that stops the bot, the path of a failed pull included, starts
\* it again.
alive(R) == {p \in Pids : R.procs[p] = "alive"}
C39_OneBot ==
  /\ Cardinality(alive(runner)) <= 1
  /\ runner.pc = "sleep" =>
       /\ runner.BOT_PID # 0
       /\ runner.procs[runner.BOT_PID] \in {"alive", "died"}
C39_Witness ==
  /\ runner.pc = "sleep"
  /\ runner.log = <<"git pull failed", "Bot started">>
  /\ runner.procs[runner.BOT_PID] = "alive"
  /\ \E p \in Pids : runner.procs[p] = "killed"
====
